---- MODULE Spec2Model ----
(***************************************************************************)
(* Sentinel PPO inference service (services/ppo/app): the module import    *)
(* that constructs the process-wide PPOInference, the /health and /decide  *)
(* routes, and PPOInference.decide.                                        *)
(*                                                                         *)
(* Numbers.  A float field of a request is modelled by an integer-valued   *)
(* double; 16777217 = 2^24 + 1 stands for the doubles that single          *)
(* precision cannot hold.  The JSON number sent as `position` is given in  *)
(* half units (h stands for h/2), so that fractional positions exist.      *)
(* Probabilities are integer percentages.  time.perf_counter and the       *)
(* latency_ms it yields are left out: no other value depends on them.      *)
(*                                                                         *)
(* The policy artifact (stable_baselines3) is an input of the service: a   *)
(* record that fixes, for each observation, the index predict() returns    *)
(* and the probabilities of the distribution.                              *)
(***************************************************************************)
EXTENDS Integers, Sequences, FiniteSets, TLC

\* ---------------------------------------------------------------- bounds
\* at most MaxNonzero float fields of an enumerated request are non-zero
MaxNonzero == 1
\* vectors of length 0..MaxLen are passed directly to PPOInference.decide
MaxLen == 8
\* positions -1, -1/2, 0, ..., MaxPosition are sent
MaxPosition == 2

\* ------------------------------------------------------------- config.py
MODEL_PATH == "/app/models/ppo_trading_v2"
MODEL_VERSION == "ppo_trading_v2"
DeviceSettings == {"cpu", "cuda", "auto"}

\* -------------------------------------------------------------- model.py
IDX_TO_ACTION == (0 :> "HOLD") @@ (1 :> "BUY") @@ (2 :> "SELL")

_pick_device(DEVICE, cuda_available) ==
    IF DEVICE = "cpu" THEN "cpu"
    ELSE IF DEVICE = "cuda" THEN "cuda"
    ELSE IF cuda_available THEN "cuda" ELSE "cpu"

\* ---------------------------------------------------- the policy artifact
\* n: size of the action space; base: the distribution at score 0, rotated
\* by the observation's score; skew: how far predict() is from the mode of
\* the distribution (0 for a calibrated policy); raises: evaluation fails on
\* observations of odd score.
Policies ==
    { [n |-> 3, base |-> <<60, 30, 10>>, skew |-> 0, raises |-> FALSE],
      [n |-> 3, base |-> <<60, 30, 10>>, skew |-> 1, raises |-> FALSE],
      [n |-> 3, base |-> <<60, 30, 10>>, skew |-> 0, raises |-> TRUE],
      [n |-> 2, base |-> <<70, 30>>, skew |-> 0, raises |-> FALSE],
      [n |-> 4, base |-> <<40, 30, 20, 10>>, skew |-> 0, raises |-> FALSE] }

NoModel == [n |-> 0, base |-> <<>>, skew |-> 0, raises |-> FALSE]

\* what is found at MODEL_PATH
Artifacts ==
    {[file |-> "ok", policy |-> p] : p \in Policies}
        \cup {[file |-> f, policy |-> NoModel] : f \in {"missing", "malformed"}}

Environments ==
    [DEVICE : DeviceSettings, cuda_available : BOOLEAN, artifact : Artifacts]

\* PPO.load(MODEL_PATH, device): fails on a missing or malformed artifact,
\* and when the checkpoint is mapped to a CUDA device that is not there.
PPO_load(e, device) ==
    IF e.artifact.file = "ok" /\ (device = "cuda" => e.cuda_available)
    THEN [ok |-> TRUE, model |-> e.artifact.policy]
    ELSE [ok |-> FALSE, model |-> NoModel]

NoPPO == [device |-> "", model |-> NoModel]

\* PPOInference.__init__: the constructed object, or the exception
PPOInference(e) ==
    LET device == _pick_device(e.DEVICE, e.cuda_available)
        loaded == PPO_load(e, device)
    IN  [ok |-> loaded.ok,
         self |-> IF loaded.ok THEN [device |-> device, model |-> loaded.model]
                  ELSE NoPPO]

VARIABLES
    pc,      \* "boot": main.py not imported yet; "serving"; "crashed"
    env,     \* the process environment and the file system at MODEL_PATH
    ppo,     \* main.ppo, the process-wide PPOInference (NoPPO: none)
    loads,   \* number of PPO.load calls made so far
    last,    \* the last call answered and what it did
    memo     \* an earlier adapter call, kept to compare later ones with

vars == <<pc, env, ppo, loads, last, memo>>

\* -------------------------------------------------------------- requests
FieldOrder ==
    <<"return_1", "return_5", "ema_spread", "ema_9_slope", "ema_21_slope",
      "position", "unrealized_pnl">>

FieldNames == {FieldOrder[i] : i \in 1..Len(FieldOrder)}
FloatFields == FieldNames \ {"position"}

\* the float parts of the requests sent: all zero but at most MaxNonzero
\* fields, which are 1, or all zero but one field that float32 cannot hold
FloatParts ==
    {f \in [FloatFields -> {0, 1}] :
        Cardinality({k \in FloatFields : f[k] # 0}) <= MaxNonzero}
    \cup {[k \in FloatFields |-> IF k = b THEN 16777217 ELSE 0] :
            b \in FloatFields}

\* JSON numbers sent as position, in half units
PositionsSent == (-2)..(2 * MaxPosition)

RawRequests ==
    {[k \in FieldNames |-> IF k = "position" THEN h ELSE f[k]] :
        f \in FloatParts, h \in PositionsSent}

NoReq == [k \in FieldNames |-> -9]

\* ------------------------------------------------------------- schema.py
Actions == {"HOLD", "BUY", "SELL"}

\* position: int = Field(..., ge=0, le=1), on the number h/2.  The detail
\* of the failure, "" when the number is accepted.
PositionErrorNoUpper(h) ==
    IF h % 2 # 0 THEN "position: Input should be a valid integer"
    ELSE IF ~(h \div 2 >= 0) THEN "position: Input should be greater than or equal to 0"
    ELSE ""
PositionError(h) ==
    IF h % 2 # 0 THEN "position: Input should be a valid integer"
    ELSE IF ~(h \div 2 >= 0) THEN "position: Input should be greater than or equal to 0"
    ELSE IF ~(h \div 2 <= 1) THEN "position: Input should be less than or equal to 1"
    ELSE ""

\* DecideRequest(**body): the validated request (position an int), or the
\* validation error
DecideRequest(raw) ==
    LET err == PositionError(raw.position)
    IN  [ok |-> err = "",
         err |-> err,
         req |-> IF err = "" THEN [raw EXCEPT !.position = raw.position \div 2]
                 ELSE NoReq]

\* ---------------------------------------------------------------- numpy
\* float64 -> float32, round to nearest even, for 0 <= x < 2^25
Float32(x) ==
    IF x <= 16777216 \/ x % 2 = 0 THEN x
    ELSE IF (x \div 2) % 2 = 0 THEN 2 * (x \div 2)
    ELSE 2 * ((x \div 2) + 1)

\* np.array(values, dtype=np.float32)
NpArray(values) ==
    [shape |-> <<Len(values)>>, data |-> [i \in 1..Len(values) |-> Float32(values[i])]]

NoArray == [shape |-> <<>>, data |-> <<>>]

\* ------------------------------------------------- the policy, evaluated
RECURSIVE WeightedSum(_, _)
WeightedSum(data, i) ==
    IF i = 0 THEN 0 ELSE i * data[i] + WeightedSum(data, i - 1)

Score(obs) == WeightedSum(obs.data, Len(obs.data))

\* self.model.policy.get_distribution(obs).distribution.probs: n entries
Distribution(model, obs) ==
    [i \in 1..model.n |-> model.base[((i - 1 - Score(obs)) % model.n) + 1]]

\* self.model.predict(obs, deterministic=True): the indices it can return
PredictSampled(model, obs) ==
    {i \in 0..(model.n - 1) : Distribution(model, obs)[i + 1] > 0}

Predict(model, obs) ==
    {((Score(obs) % model.n) + model.skew) % model.n}

\* the evaluation of the policy fails (numerical error, device error)
EvaluationRaises(model, obs) == model.raises /\ Score(obs) % 2 = 1

\* ------------------------------------------------------------ exceptions
NoExc == [type |-> "", msg |-> "", expected |-> <<>>, got |-> <<>>, key |-> -1]

ValueError(expected, got) ==
    [type |-> "ValueError", msg |-> "Expected obs shape, got",
     expected |-> expected, got |-> got, key |-> -1]
IndexError(i) ==
    [type |-> "IndexError", msg |-> "index is out of bounds",
     expected |-> <<>>, got |-> <<>>, key |-> i]
KeyError(k) ==
    [type |-> "KeyError", msg |-> "", expected |-> <<>>, got |-> <<>>, key |-> k]
RuntimeError ==
    [type |-> "RuntimeError", msg |-> "policy evaluation failed",
     expected |-> <<>>, got |-> <<>>, key |-> -1]
ValidationError(msg) ==
    [type |-> "ValidationError", msg |-> msg,
     expected |-> <<>>, got |-> <<>>, key |-> -1]

\* str(e): the arguments of the exception, without its type
Str(e) == [msg |-> e.msg, expected |-> e.expected, got |-> e.got, key |-> e.key]
NoDetail == Str(NoExc)

\* ------------------------------------------------- PPOInference.decide
NoProbs == [HOLD |-> -1, BUY |-> -1, SELL |-> -1]
NoRet == [action |-> "", confidence |-> -1, probs |-> NoProbs, action_idx |-> -1]
NoOut == [self |-> NoPPO, exc |-> NoExc, ret |-> NoRet, evaluated |-> <<>>]

\* obs_7.shape != (7,) does not hold
ShapeAcceptedAny1D(obs) == Len(obs.shape) = 1
ShapeAccepted(obs) == obs.shape = <<7>>

\* IDX_TO_ACTION[action_idx], or the KeyError
LookupWrapped(action_idx) ==
    [ok |-> TRUE, label |-> IDX_TO_ACTION[action_idx % 3]]
Lookup(action_idx) ==
    IF action_idx \in DOMAIN IDX_TO_ACTION
    THEN [ok |-> TRUE, label |-> IDX_TO_ACTION[action_idx]]
    ELSE [ok |-> FALSE, label |-> ""]

MaxOf(S) == CHOOSE m \in S : \A x \in S : x <= m

\* confidence = probs_dict[IDX_TO_ACTION[action_idx]]
ConfidenceMax(probs_dict, label) ==
    MaxOf({probs_dict[a] : a \in DOMAIN probs_dict})
Confidence(probs_dict, label) == probs_dict[label]

\* the rest of decide once predict has returned action_idx
AfterPredict(self, obs, action_idx) ==
    LET probs == Distribution(self.model, obs)
        probs_dict == [HOLD |-> probs[1], BUY |-> probs[2], SELL |-> probs[3]]
        found == Lookup(action_idx)
        seen == <<obs>>
    IN  IF Len(probs) < 3
        THEN [exc |-> IndexError(Len(probs)), ret |-> NoRet, evaluated |-> seen]
        ELSE IF ~found.ok
        THEN [exc |-> KeyError(action_idx), ret |-> NoRet, evaluated |-> seen]
        ELSE [exc |-> NoExc,
              ret |-> [action |-> found.label,
                       confidence |-> Confidence(probs_dict, found.label),
                       probs |-> probs_dict,
                       action_idx |-> action_idx],
              evaluated |-> seen]

\* self after the call
SelfAfterMigrated(self, obs) == [self EXCEPT !.device = "cpu"]
SelfAfter(self, obs) == self

\* PPOInference.decide(self, obs_7): the outcomes it can have.  exc is the
\* exception raised (NoExc: none), ret the tuple returned, evaluated the
\* arrays the policy was evaluated on, self the adapter after the call.
PPODecide(self, obs) ==
    IF ~ShapeAccepted(obs)
    THEN {[self |-> SelfAfter(self, obs), exc |-> ValueError(<<7>>, obs.shape),
           ret |-> NoRet, evaluated |-> <<>>]}
    ELSE IF EvaluationRaises(self.model, obs)
    THEN {[self |-> SelfAfter(self, obs), exc |-> RuntimeError,
           ret |-> NoRet, evaluated |-> <<obs>>]}
    ELSE {[self |-> SelfAfter(self, obs), exc |-> r.exc, ret |-> r.ret,
           evaluated |-> r.evaluated] :
            r \in {AfterPredict(self, obs, i) : i \in Predict(self.model, obs)}}

\* --------------------------------------------------------------- main.py
\* the import of main.py: `ppo = PPOInference()` runs before the routes are
\* registered and before anything is served; an exception ends the import
ImportSwallowed(e) == [pc |-> "serving", ppo |-> PPOInference(e).self]
ImportRetried(e) ==
    LET made == PPOInference(e)
    IN  IF made.ok THEN [pc |-> "serving", ppo |-> made.self]
        ELSE [pc |-> "boot", ppo |-> NoPPO]
ImportOutcome(e) ==
    LET made == PPOInference(e)
    IN  IF made.ok THEN [pc |-> "serving", ppo |-> made.self]
        ELSE [pc |-> "crashed", ppo |-> NoPPO]

\* GET /health
NoHealth == [status |-> "", model_version |-> "", device |-> ""]
health(self) ==
    [status |-> "ok", model_version |-> MODEL_VERSION, device |-> self.device]

\* the observation built from a validated request
BuildObsSwapped(req) ==
    NpArray(<<req.return_5, req.return_1, req.ema_spread, req.ema_9_slope,
              req.ema_21_slope, req.position, req.unrealized_pnl>>)
BuildObs(req) ==
    NpArray(<<req.return_1, req.return_5, req.ema_spread, req.ema_9_slope,
              req.ema_21_slope, req.position, req.unrealized_pnl>>)

NoMeta == [model_version |-> "", probs |-> NoProbs, action_idx |-> -1, obs |-> NoReq]
NoResp ==
    [status |-> 0, action |-> "", confidence |-> -1, agent |-> "",
     meta |-> NoMeta, detail |-> NoDetail]

\* raise HTTPException(status_code, detail), as FastAPI answers it
HoldFallback(status_code, detail) ==
    [NoResp EXCEPT !.status = 200, !.action = "HOLD", !.confidence = 0,
                   !.agent = "ppo"]
HTTPException(status_code, detail) ==
    [NoResp EXCEPT !.status = status_code, !.detail = detail]

\* DecideResponse(action=..., confidence=..., meta=...): action must be one
\* of the Literal's values
DecideResponse(action, confidence, meta) ==
    IF action \in Actions
    THEN [exc |-> NoExc,
          resp |-> [status |-> 200, action |-> action, confidence |-> confidence,
                    agent |-> "ppo", meta |-> meta, detail |-> NoDetail]]
    ELSE [exc |-> ValidationError("action: Input should be 'HOLD', 'BUY' or 'SELL'"),
          resp |-> NoResp]

\* the body of decide(req): the try block and its except clause
decide(self, req) ==
    LET obs == BuildObs(req)
    IN  {[called |-> TRUE, obs |-> obs, out |-> o,
          resp |->
            IF o.exc # NoExc THEN HTTPException(400, Str(o.exc))
            ELSE LET made == DecideResponse(
                                o.ret.action, o.ret.confidence,
                                [model_version |-> MODEL_VERSION,
                                 probs |-> o.ret.probs,
                                 action_idx |-> o.ret.action_idx,
                                 obs |-> req])
                 IN  IF made.exc # NoExc THEN HTTPException(400, Str(made.exc))
                     ELSE made.resp] :
         o \in PPODecide(self, obs)}

\* POST /decide: the body is validated against DecideRequest first, and a
\* body that fails is answered 422 without the route function being called
PostDecide(self, raw) ==
    LET v == DecideRequest(raw)
    IN  IF ~v.ok
        THEN {[called |-> FALSE, obs |-> NoArray,
               out |-> [NoOut EXCEPT !.self = self],
               resp |-> HTTPException(422, Str(ValidationError(v.err)))]}
        ELSE decide(self, v.req)

\* ------------------------------------------------------------- the state
NoCall ==
    [route |-> "none", position |-> -9, req |-> NoReq, called |-> FALSE,
     obs |-> NoArray, out |-> NoOut, resp |-> NoResp, health |-> NoHealth,
     ready |-> FALSE]

NoMemo == [set |-> FALSE, obs |-> NoArray, out |-> NoOut]

Remember(keep, obs, out) ==
    IF keep /\ ~memo.set THEN [set |-> TRUE, obs |-> obs, out |-> out] ELSE memo

\* arrays handed to PPOInference.decide by a caller other than the route
DirectVectors ==
    {[shape |-> <<n>>, data |-> [i \in 1..n |-> 0]] : n \in 0..MaxLen}
    \cup {[shape |-> sh, data |-> [i \in 1..7 |-> 0]] : sh \in {<<1, 7>>, <<7, 1>>}}

\* the requests of the runs that compare two calls: at most one float field
\* is not zero, and it is 1
PairRequests ==
    {r \in RawRequests :
        /\ \A k \in FloatFields : r[k] \in {0, 1}
        /\ Cardinality({k \in FloatFields : r[k] # 0}) <= 1}

Ready == ppo # NoPPO

Init ==
    /\ pc = "boot"
    /\ env \in Environments
    /\ ppo = NoPPO
    /\ loads = 0
    /\ last = NoCall
    /\ memo = NoMemo

\* the process starts: main.py is imported
ImportMain ==
    /\ pc = "boot"
    /\ LET o == ImportOutcome(env)
       IN  /\ pc' = o.pc
           /\ ppo' = o.ppo
    /\ loads' = loads + 1
    /\ UNCHANGED <<env, last, memo>>

Health ==
    /\ pc = "serving"
    /\ last' = [NoCall EXCEPT !.route = "health", !.health = health(ppo),
                              !.ready = Ready]
    /\ UNCHANGED <<pc, env, ppo, loads, memo>>

\* a call is kept for later comparison at most once
Keeps(keeps) == {k \in keeps : k => ~memo.set}

DecideHTTP(requests, keeps) ==
    /\ pc = "serving"
    /\ \E raw \in requests, keep \in Keeps(keeps) :
         \E r \in PostDecide(ppo, raw) :
            /\ last' = [NoCall EXCEPT !.route = "decide",
                                      !.position = raw.position,
                                      !.req = DecideRequest(raw).req,
                                      !.called = r.called, !.obs = r.obs,
                                      !.out = r.out, !.resp = r.resp,
                                      !.ready = Ready]
            /\ ppo' = r.out.self
            /\ memo' = IF r.called THEN Remember(keep, r.obs, r.out) ELSE memo
    /\ UNCHANGED <<pc, env, loads>>

DecideDirect(keeps) ==
    /\ pc = "serving"
    /\ \E v \in DirectVectors, keep \in Keeps(keeps) :
         \E o \in PPODecide(ppo, v) :
            /\ last' = [NoCall EXCEPT !.route = "direct", !.called = TRUE,
                                      !.obs = v, !.out = o, !.ready = Ready]
            /\ ppo' = o.self
            /\ memo' = Remember(keep, v, o)
    /\ UNCHANGED <<pc, env, loads>>

Next ==
    \/ ImportMain
    \/ Health
    \/ DecideHTTP(RawRequests, {FALSE})
    \/ DecideDirect({FALSE})

Spec == Init /\ [][Next]_vars

\* the same service, with one earlier adapter call kept in memo
NextPair ==
    \/ ImportMain
    \/ Health
    \/ DecideHTTP(PairRequests, BOOLEAN)
    \/ DecideDirect(BOOLEAN)

SpecPair == Init /\ [][NextPair]_vars

\* ================================================================ claims
\* what the last call was
IsDecide == last.route = "decide"
AdapterCalled == last.route \in {"decide", "direct"} /\ last.called
Returned == AdapterCalled /\ last.out.exc = NoExc
ClientError(resp) == resp.status \in 400..499

\* C1: a /decide request whose position is not the integer 0 or 1 (negative,
\* greater than 1, or fractional) is answered with a client error, and
\* PPOInference.decide is not called and the policy not evaluated for it.
C1_PositionRejected ==
    (IsDecide /\ last.position \notin {0, 2})
        => /\ ClientError(last.resp)
           /\ last.resp.detail # NoDetail
           /\ ~last.called
           /\ last.obs = NoArray
           /\ last.out.evaluated = <<>>

\* a request with position 2 and one with position 1/2 were each refused
C1_Witness ==
    /\ IsDecide
    /\ last.position \in {1, 4}
    /\ last.resp.status = 422
    /\ ~last.called

\* C2: a /decide request ends either in a complete DecideResponse carrying an
\* action, or in a client error carrying a detail and no action; whenever
\* validation, the shape check, the policy or the assembly fails, it is the
\* error, never a response with an action.
IsComplete(resp) ==
    /\ resp.status = 200
    /\ resp.action \in Actions
    /\ resp.agent = "ppo"
    /\ resp.meta # NoMeta
    /\ resp.meta.probs # NoProbs
    /\ resp.detail = NoDetail

IsError(resp) ==
    /\ ClientError(resp)
    /\ resp.detail # NoDetail
    /\ resp.action = ""
    /\ resp.meta = NoMeta

C2_OneOfTwoOutcomes ==
    IsDecide =>
        /\ IsComplete(last.resp) \/ IsError(last.resp)
        /\ ~(IsComplete(last.resp) /\ IsError(last.resp))
        /\ (last.req = NoReq \/ last.out.exc # NoExc) => IsError(last.resp)
        /\ IsComplete(last.resp) => Returned /\ last.resp.action = last.out.ret.action

\* the lookup of an index outside the table failed and was answered 400
C2_Witness ==
    /\ IsDecide
    /\ last.out.exc.type = "KeyError"
    /\ last.resp.status = 400
    /\ last.resp.action = ""

\* C3: a health answer says "ok" only when the adapter is Ready; none is
\* given before the model is loaded or after a failed load.
C3_HealthOkOnlyReady ==
    /\ last.health.status = "ok" => last.ready /\ Ready
    /\ ~Ready => last.route = "none"

C3_Witness ==
    /\ last.route = "health"
    /\ last.health.status = "ok"
    /\ last.health.device = "cuda"
    /\ Ready

\* C4: the adapter becomes Ready at most once, at construction, and only when
\* the load succeeds; once Ready it stays Ready with the same model; a failed
\* load is final and the load is never repeated; no decide call is served
\* while the adapter is Uninitialized.
C4_Step ==
    /\ Ready => ppo' # NoPPO /\ ppo'.model = ppo.model
    /\ (~Ready /\ ppo' # NoPPO)
          => pc = "boot" /\ loads = 0 /\ PPOInference(env).ok /\ pc' = "serving"
    /\ pc = "crashed" => pc' = "crashed" /\ ppo' = NoPPO
    /\ loads' <= 1
    /\ pc' = "serving" <=> ppo' # NoPPO
    /\ last'.route \in {"decide", "direct"} => last'.ready /\ ppo' # NoPPO

C4_Lifecycle == [][C4_Step]_vars

C4_Witness ==
    /\ Ready
    /\ loads = 1
    /\ IsDecide
    /\ last.resp.status = 200

\* C5: the confidence of a successful decide is the probability of the
\* returned action in the returned mapping, also when that action is not the
\* most probable one.
C5_ConfidenceOfSelected ==
    /\ Returned =>
          last.out.ret.confidence = last.out.ret.probs[last.out.ret.action]
    /\ (IsDecide /\ last.resp.status = 200) =>
          /\ last.resp.confidence = last.resp.meta.probs[last.resp.action]
          /\ last.resp.meta.probs = last.out.ret.probs

\* a success whose action is not the most probable one
C5_Witness ==
    /\ IsDecide
    /\ last.resp.status = 200
    /\ \E a \in Actions : last.resp.meta.probs[a] > last.resp.confidence

\* C7: PPOInference.decide on an array whose shape is not (7,) raises the
\* error naming the expected and the actual shape, and the policy is not
\* evaluated on it, nor on a cut or padded copy.
C7_ShapeError ==
    (AdapterCalled /\ last.obs.shape # <<7>>)
        => /\ last.out.exc.type = "ValueError"
           /\ last.out.exc.expected = <<7>>
           /\ last.out.exc.got = last.obs.shape
           /\ last.out.ret = NoRet
           /\ last.out.evaluated = <<>>

C7_Witness ==
    /\ last.route = "direct"
    /\ last.obs.shape = <<8>>
    /\ last.out.exc.type = "ValueError"
    /\ last.out.exc.got = <<8>>

\* C8 as stated: the vector handed to PPOInference.decide has 7 elements and
\* element i is the value of the i-th field of the order.
C8_ExactValues ==
    (IsDecide /\ last.called)
        => /\ last.obs.shape = <<7>>
           /\ Len(last.obs.data) = 7
           /\ \A i \in 1..7 : last.obs.data[i] = last.req[FieldOrder[i]]

\* C8, amended: element i is the value of the i-th field of the order,
\* rounded to single precision.
C8_OrderedFloat32 ==
    (IsDecide /\ last.called)
        => /\ last.obs.shape = <<7>>
           /\ Len(last.obs.data) = 7
           /\ \A i \in 1..7 : last.obs.data[i] = Float32(last.req[FieldOrder[i]])
           /\ last.out.evaluated \in {<<>>, <<last.obs>>}

\* a request with position 1 and a return_5 that single precision rounds
C8_Witness ==
    /\ IsDecide
    /\ last.called
    /\ last.req.position = 1
    /\ last.req.return_5 = 16777217
    /\ last.obs.data[2] = 16777216
    /\ last.obs.data[6] = 1

\* C10: a successful decide has action_idx in {0, 1, 2} and the action that
\* the table gives for it; an index outside the table, or a distribution of
\* fewer than 3 entries, never yields a success.
C10_IndexAndLabel ==
    /\ Returned =>
          /\ last.out.ret.action_idx \in {0, 1, 2}
          /\ last.out.ret.action = IDX_TO_ACTION[last.out.ret.action_idx]
          /\ last.out.ret.action_idx \in Predict(ppo.model, last.obs)
          /\ ppo.model.n >= 3
    /\ (IsDecide /\ last.resp.status = 200) =>
          /\ last.resp.meta.action_idx = last.out.ret.action_idx
          /\ last.resp.action = IDX_TO_ACTION[last.resp.meta.action_idx]
    /\ (AdapterCalled /\ last.obs.shape = <<7>>
            /\ (ppo.model.n < 3 \/ ~(Predict(ppo.model, last.obs) \subseteq {0, 1, 2})))
          => /\ last.out.exc # NoExc
             /\ last.out.ret = NoRet
             /\ last.resp.action = ""

\* a policy of 4 actions chose index 3, and the call failed
C10_Witness ==
    /\ IsDecide
    /\ ppo.model.n = 4
    /\ last.out.exc.type = "KeyError"
    /\ last.out.exc.key = 3
    /\ ClientError(last.resp)

\* the last call is an adapter call on the observation of the call kept
SameObsAgain == memo.set /\ AdapterCalled /\ last.obs = memo.obs

C9_Step ==
    /\ pc = "serving" => (ppo' = ppo /\ env' = env /\ pc' = pc /\ loads' = loads)
    /\ last'.route \in {"decide", "direct"} => last'.out.self = ppo
    /\ (memo'.set /\ last'.called /\ last'.obs = memo'.obs)
          => /\ last'.out.exc = memo'.out.exc
             /\ last'.out.ret = memo'.out.ret
             /\ last'.out.evaluated = memo'.out.evaluated

====
